---- MODULE Spec2Model ----
(***************************************************************************)
(* State-machine model of WebSocketHelper (src/src/WebSokcetHelper.ts).    *)
(*                                                                         *)
(* Every step is one run-to-completion task of the single-threaded event   *)
(* loop: a public method called by the application, or one event that a    *)
(* WebSocket object dispatches to the handler stored on it.                *)
(***************************************************************************)
EXTENDS Naturals, Sequences, FiniteSets

\* ------------------------------------------------------------- bounds ---
MaxTransports == 3      \* WebSocket objects created (calls of connect)
MaxMsgs == 2            \* message events dispatched by transports
MaxSubs == 2            \* calls of subscribe that reach a publisher
MaxLimits == 1          \* largest reconnectLimits an application passes
MaxSendTransports == 2  \* WebSocket objects created where send is exercised

\* ---------------------------------------------------- program constants ---
DefaultReconnectLimits == 5

\* ------------------------------------------------------------ domains ---
Urls == {"A"}

\* payload texts carried by message events: valid JSON, invalid JSON, empty
JsonText == "{\"x\":1}"
RawText == "hello"
EmptyText == ""
PayloadTexts == {JsonText, RawText, EmptyText}

DefaultOptions == [autoReconnect |-> TRUE, reconnectLimits |-> DefaultReconnectLimits]

\* the options argument of connect; Undefined is an omitted argument
Undefined == [autoReconnect |-> FALSE, reconnectLimits |-> 0, given |-> FALSE]
OptionArgs ==
    {Undefined} \cup
    {[autoReconnect |-> a, reconnectLimits |-> MaxLimits, given |-> TRUE] : a \in BOOLEAN}

\* handlers stored on a WebSocket object
NoHandler == [kind |-> "none", o |-> 0]
ConnectOnOpen == [kind |-> "connectOnOpen", o |-> 0]
ResolveFalse == [kind |-> "resolveFalse", o |-> 0]
ObserverNext(o) == [kind |-> "next", o |-> o]
ObserverComplete(o) == [kind |-> "complete", o |-> o]

NoPublisher == [id |-> 0, isStopped |-> FALSE, observers |-> <<>>]

\* messages an application passes to send: a string, a plain object, and an
\* object JSON.stringify throws for (one that holds a cycle or a BigInt)
NoMessage == [type |-> "none", value |-> "none"]
StringMessage == [type |-> "string", value |-> RawText]
ObjectMessage == [type |-> "object", value |-> "{x:1}"]
CyclicMessage == [type |-> "object", value |-> "cyclic"]
SendArgs == {StringMessage, ObjectMessage, CyclicMessage}

VARIABLES
    status,         \* this.status
    ws,             \* this.ws: 0 is null, else an index of transports
    url,            \* this.url
    options,        \* this.options
    publisher,      \* this.publisher: NoPublisher is null, else the Subject
    listeners,      \* this.listeners: Subscriptions [pub, cb]
    cacheMessages,  \* this.cacheMessages: payloads, last pushed last, each
                    \* with the Subscriber that took it in (via, history)
    transports,     \* every WebSocket object created, with its handlers,
                    \* readyState and the promise of the connect that made it
    subscribers,    \* isStopped of the Subscriber made by each initPublish
    nCb,            \* callbacks passed to a subscribe that reached a publisher
    delivered,      \* every value handed to a callback, in delivery order
    nMsgs,          \* message events dispatched so far
    rc,             \* the reconnect() coroutine
    accepted,       \* history: ids of payloads the next handler has run for
    terminated,     \* history: callbacks registered when a teardown ran
    lastOp          \* history: the step just taken and its outcome

vars == <<status, ws, url, options, publisher, listeners, cacheMessages,
          transports, subscribers, nCb, delivered, nMsgs, rc, accepted, terminated,
          lastOp>>

managerVars == <<status, ws, url, options, publisher, listeners, cacheMessages>>

Transports == 1..Len(transports)

\* op is "subscribe", "open", "send", "lateClose" or "other"; raised an exception
\* name or "none"; resolved the value a connect promise was settled with in the
\* step, or "none"; arg the message of a send; handed the text the step passed
\* to WebSocket.send, or "none"
Op(name, raised, resolved) ==
    [op |-> name, raised |-> raised, resolved |-> resolved, arg |-> NoMessage,
     handed |-> "none"]

RcIdle == [pc |-> "idle", t |-> 0, reconnectTime |-> 0, limits |-> 0, attempts |-> 0]

Init ==
    /\ status = FALSE
    /\ ws = 0
    /\ url = ""
    /\ options = DefaultOptions
    /\ publisher = NoPublisher
    /\ listeners = <<>>
    /\ cacheMessages = <<>>
    /\ transports = <<>>
    /\ subscribers = <<>>
    /\ nCb = 0
    /\ delivered = <<>>
    /\ nMsgs = 0
    /\ rc = RcIdle
    /\ accepted = {}
    /\ terminated = {}
    /\ lastOp = Op("other", "none", "none")

\* ------------------------------------------------- library primitives ---
\* JSON.parse: the decoded value, or a SyntaxError
JSONparse(data) ==
    IF data = JsonText THEN [ok |-> TRUE, value |-> "{x:1}"]
    ELSE [ok |-> FALSE, value |-> "SyntaxError"]

\* JSON.stringify: the JSON text of a value (a string is quoted), or a TypeError
JSONstringify(m) ==
    IF m = ObjectMessage THEN [ok |-> TRUE, text |-> JsonText]
    ELSE IF m = StringMessage THEN [ok |-> TRUE, text |-> "\"hello\""]
    ELSE [ok |-> FALSE, text |-> "TypeError"]

\* what a callback is handed for payload p: the decoded value or the raw text
Structured(p) == [id |-> p.id, tag |-> "Structured", value |-> JSONparse(p.data).value]
Raw(p) == [id |-> p.id, tag |-> "Raw", value |-> p.data]

\* the decode-or-pass-through of the next handler (try JSON.parse, catch: the data)
DecodeOrPass(p) == IF JSONparse(p.data).ok THEN Structured(p) ELSE Raw(p)

\* new WebSocket(url) with the handlers connect stores on it.  opened records
\* that the open event was dispatched; closeDue that an error event was, whose
\* close event is still to come
NewWebSocket(u) ==
    [url |-> u, readyState |-> "CONNECTING", opened |-> FALSE, closeDue |-> FALSE,
     onopen |-> ConnectOnOpen, onerror |-> ResolveFalse,
     onmessage |-> NoHandler, onclose |-> NoHandler, promise |-> "pending"]

\* resolve(v) of the promise made by the connect call that created t
Resolve(ts, t, v) ==
    IF ts[t].promise = "pending" THEN [ts EXCEPT ![t].promise = v] ELSE ts

\* Subject.subscribe(callback): a stopped Subject only completes the callback
SubjectSubscribe(pub, cb) ==
    IF pub.isStopped THEN pub ELSE [pub EXCEPT !.observers = Append(@, cb)]

\* Subject.next(value): every registered callback, in registration order
SubjectNext(pub, log, m) ==
    IF pub.isStopped THEN log
    ELSE log \o [i \in 1..Len(pub.observers) |->
                    [cb |-> pub.observers[i], id |-> m.id, tag |-> m.tag, value |-> m.value]]

\* Subject.complete()
SubjectComplete(pub) == [pub EXCEPT !.isStopped = TRUE, !.observers = <<>>]

\* --------------------------------------------------------- the manager ---
\* connect(url, options): lines 35-46 up to the return of the promise
connect(u, opt) ==
    /\ url' = u
    /\ options' = IF opt.given
                  THEN [autoReconnect |-> opt.autoReconnect,
                        reconnectLimits |-> opt.reconnectLimits]
                  ELSE options
    /\ transports' = Append(transports, NewWebSocket(u))
    /\ ws' = Len(transports) + 1

\* the function passed to new Observable: handlers of Subscriber o stored on this.ws
Wire(ts, w, o) ==
    [ts EXCEPT ![w].onmessage = ObserverNext(o),
               ![w].onclose = ObserverComplete(o),
               ![w].onerror = ObserverComplete(o)]

\* initPublish(): a fresh Subject, and a fresh Subscriber wired to this.ws
initPublish(ts) ==
    LET o == Len(subscribers) + 1 IN
    /\ publisher' = [id |-> o, isStopped |-> FALSE, observers |-> <<>>]
    /\ subscribers' = Append(subscribers, FALSE)
    /\ transports' = Wire(ts, ws, o)

\* mutant: onopen resolves without initialising the relay
onopen_NoInit(t, ts) ==
    /\ status' = TRUE
    /\ transports' = Resolve(ts, t, "true")
    /\ UNCHANGED <<publisher, subscribers>>

\* this.ws.onopen of connect, for the WebSocket t it was stored on
onopen(t, ts) ==
    /\ status' = TRUE
    /\ initPublish(Resolve(ts, t, "true"))

\* clearCacheMessages(): pop until pop() returns a falsy value; JSON.parse unguarded
RECURSIVE clearCacheMessages(_, _, _)
clearCacheMessages(cache, pub, log) ==
    IF Len(cache) = 0
    THEN [cache |-> cache, delivered |-> log, raised |-> "none"]
    ELSE LET cacheMessage == cache[Len(cache)]
             rest == SubSeq(cache, 1, Len(cache) - 1)
         IN IF cacheMessage.data = EmptyText
            THEN [cache |-> rest, delivered |-> log, raised |-> "none"]
            ELSE IF ~JSONparse(cacheMessage.data).ok
            THEN [cache |-> rest, delivered |-> log, raised |-> "SyntaxError"]
            ELSE clearCacheMessages(rest, pub, SubjectNext(pub, log, Structured(cacheMessage)))

\* the next handler of initPublish, reached through Subscriber o
next(o, p) ==
    IF subscribers[o]
    THEN UNCHANGED <<cacheMessages, delivered, accepted>>
    ELSE LET message == DecodeOrPass(p) IN
         /\ accepted' = accepted \cup {p.id}
         /\ IF Len(listeners) = 0
            THEN /\ cacheMessages' = Append(cacheMessages, p)
                 /\ UNCHANGED delivered
            ELSE /\ delivered' = SubjectNext(publisher, delivered, message)
                 /\ UNCHANGED cacheMessages

\* mutant: the complete handler drops its list but leaves the publisher running
complete_KeepsPublisher(o) ==
    IF subscribers[o]
    THEN UNCHANGED <<status, publisher, listeners, subscribers, terminated>>
    ELSE /\ subscribers' = [subscribers EXCEPT ![o] = TRUE]
         /\ status' = FALSE
         /\ listeners' = <<>>
         /\ terminated' = terminated \cup (1..nCb)
         /\ UNCHANGED publisher

\* mutant: the complete handler runs on every event, with no Subscriber in
\* front of it to stop the second one
complete_Repeats(o) ==
    /\ subscribers' = [subscribers EXCEPT ![o] = TRUE]
    /\ status' = FALSE
    /\ publisher' = SubjectComplete(publisher)
    /\ listeners' = <<>>
    /\ terminated' = terminated \cup (1..nCb)

\* mutant: the complete handler forgets to reset this.listeners
complete_KeepsListeners(o) ==
    IF subscribers[o]
    THEN UNCHANGED <<status, publisher, listeners, subscribers, terminated>>
    ELSE /\ subscribers' = [subscribers EXCEPT ![o] = TRUE]
         /\ status' = FALSE
         /\ publisher' = SubjectComplete(publisher)
         /\ terminated' = terminated \cup (1..nCb)
         /\ UNCHANGED listeners

\* the complete handler of initPublish, reached through Subscriber o
complete(o) ==
    IF subscribers[o]
    THEN UNCHANGED <<status, publisher, listeners, subscribers, terminated>>
    ELSE /\ subscribers' = [subscribers EXCEPT ![o] = TRUE]
         /\ status' = FALSE
         /\ publisher' = SubjectComplete(publisher)
         /\ listeners' = <<>>
         /\ terminated' = terminated \cup (1..nCb)

\* mutant: send without the readyState test; WebSocket.send throws on a socket
\* that is still connecting and drops the text on one that is closing or closed
send_NoReadyCheck(m) ==
    IF ws = 0 THEN [raised |-> "none", handed |-> "none"]
    ELSE IF transports[ws].readyState = "CONNECTING"
    THEN [raised |-> "Error", handed |-> "none"]
    ELSE IF m.type = "string" THEN [raised |-> "none", handed |-> m.value]
    ELSE IF JSONstringify(m).ok
    THEN [raised |-> "none", handed |-> JSONstringify(m).text]
    ELSE [raised |-> "Error", handed |-> "none"]

\* mutant: send serializes every message, strings included
send_StringifiesAll(m) ==
    IF ws # 0 /\ transports[ws].readyState = "OPEN"
    THEN IF JSONstringify(m).ok
         THEN [raised |-> "none", handed |-> JSONstringify(m).text]
         ELSE [raised |-> "Error", handed |-> "none"]
    ELSE [raised |-> "none", handed |-> "none"]

\* send(message), lines 69-79: what it raises and what it hands to this.ws.send
send(m) ==
    IF ws # 0 /\ transports[ws].readyState = "OPEN"
    THEN IF m.type = "string" THEN [raised |-> "none", handed |-> m.value]
         ELSE IF JSONstringify(m).ok
         THEN [raised |-> "none", handed |-> JSONstringify(m).text]
         ELSE [raised |-> "Error", handed |-> "none"]
    ELSE [raised |-> "none", handed |-> "none"]

\* ------------------------------------------------- application calls ---
Connect(u, opt) ==
    /\ Len(transports) < MaxTransports
    /\ connect(u, opt)
    /\ lastOp' = Op("other", "none", "none")
    /\ UNCHANGED <<status, publisher, listeners, cacheMessages, subscribers, nCb,
                   delivered, nMsgs, rc, accepted, terminated>>

Subscribe ==
    IF publisher = NoPublisher
    THEN /\ lastOp' = Op("subscribe", "TypeError", "none")
         /\ UNCHANGED <<managerVars, transports, subscribers, nCb, delivered, nMsgs,
                        rc, accepted, terminated>>
    ELSE /\ nCb < MaxSubs
         /\ LET cb == nCb + 1
                listen == [pub |-> publisher.id, cb |-> cb]
                pub == SubjectSubscribe(publisher, cb)
                drained == clearCacheMessages(cacheMessages, pub, delivered)
            IN /\ nCb' = cb
               /\ publisher' = pub
               /\ cacheMessages' = drained.cache
               /\ delivered' = drained.delivered
               /\ listeners' = IF drained.raised = "none"
                               THEN Append(listeners, listen) ELSE listeners
               /\ lastOp' = Op("subscribe", drained.raised, "none")
         /\ UNCHANGED <<status, ws, url, options, transports, subscribers, nMsgs, rc,
                        accepted, terminated>>

Send(m) ==
    /\ lastOp' = [op |-> "send", raised |-> send(m).raised, resolved |-> "none",
                  arg |-> m, handed |-> send(m).handed]
    /\ UNCHANGED <<managerVars, transports, subscribers, nCb, delivered, nMsgs, rc,
                   accepted, terminated>>

\* close(): this.ws?.close(); WebSocket.close() does nothing once the socket is
\* closing or closed
Close ==
    /\ transports' = IF ws # 0 /\ transports[ws].readyState \in {"CONNECTING", "OPEN"}
                     THEN [transports EXCEPT ![ws].readyState = "CLOSING"]
                     ELSE transports
    /\ lastOp' = Op("other", "none", "none")
    /\ UNCHANGED <<managerVars, subscribers, nCb, delivered, nMsgs, rc, accepted,
                   terminated>>

\* -------------------------------------------------- transport events ---
\* A WebSocket that fails fires its error event and then its close event from
\* one task: between the two only the application runs (re-entrant calls and
\* microtasks), no event of any WebSocket is dispatched.
EventDue == \E u \in Transports : transports[u].closeDue

TransportOpen(t) ==
    /\ ~EventDue
    /\ transports[t].readyState = "CONNECTING"
    /\ onopen(t, [transports EXCEPT ![t].readyState = "OPEN", ![t].opened = TRUE])
    /\ lastOp' = Op("open", "none",
                    IF transports[t].promise = "pending" THEN "true" ELSE "none")
    /\ UNCHANGED <<ws, url, options, listeners, cacheMessages, nCb, delivered, nMsgs,
                   rc, accepted, terminated>>

TransportMessage(t, data) ==
    /\ ~EventDue
    /\ transports[t].readyState = "OPEN"
    /\ nMsgs < MaxMsgs
    /\ nMsgs' = nMsgs + 1
    /\ LET h == transports[t].onmessage IN
       IF h.kind = "next"
       THEN next(h.o, [id |-> nMsgs + 1, data |-> data, via |-> h.o])
       ELSE UNCHANGED <<cacheMessages, delivered, accepted>>
    /\ lastOp' = Op("other", "none", "none")
    /\ UNCHANGED <<status, ws, url, options, publisher, listeners, transports,
                   subscribers, nCb, rc, terminated>>

\* the handler stored in onerror / onclose of a WebSocket whose state is now ts
Terminate(h, t, ts) ==
    IF h.kind = "complete"
    THEN /\ complete(h.o)
         /\ transports' = ts
    ELSE /\ transports' = IF h.kind = "resolveFalse" THEN Resolve(ts, t, "false") ELSE ts
         /\ UNCHANGED <<status, publisher, listeners, subscribers, terminated>>

TransportError(t) ==
    /\ ~EventDue
    /\ \/ transports[t].readyState \in {"CONNECTING", "OPEN"}
       \/ transports[t].readyState = "CLOSING" /\ ~transports[t].opened
    /\ Terminate(transports[t].onerror, t,
                 [transports EXCEPT ![t].readyState = "CLOSED", ![t].closeDue = TRUE])
    /\ lastOp' = Op("other", "none",
                    IF transports[t].onerror.kind = "resolveFalse"
                       /\ transports[t].promise = "pending" THEN "false" ELSE "none")
    /\ UNCHANGED <<ws, url, options, cacheMessages, nCb, delivered, nMsgs, rc, accepted>>

TransportClose(t) ==
    /\ \/ transports[t].closeDue
       \/ ~EventDue /\ transports[t].readyState = "OPEN"
       \/ ~EventDue /\ transports[t].readyState = "CLOSING" /\ transports[t].opened
    /\ Terminate(transports[t].onclose, t,
                 [transports EXCEPT ![t].readyState = "CLOSED", ![t].closeDue = FALSE])
    /\ lastOp' = Op(IF transports[t].closeDue THEN "lateClose" ELSE "other", "none", "none")
    /\ UNCHANGED <<ws, url, options, cacheMessages, nCb, delivered, nMsgs, rc, accepted>>

Next ==
    \/ \E u \in Urls, opt \in OptionArgs : Connect(u, opt)
    \/ Subscribe
    \/ Close
    \/ \E t \in Transports : TransportOpen(t)
    \/ \E t \in Transports, data \in PayloadTexts : TransportMessage(t, data)
    \/ \E t \in Transports : TransportError(t)
    \/ \E t \in Transports : TransportClose(t)

Spec == Init /\ [][Next]_vars

\* the same relation with send calls, over fewer WebSocket objects
NextSend ==
    \/ \E m \in SendArgs : Send(m)
    \/ Len(transports) < MaxSendTransports
          /\ \E u \in Urls, opt \in OptionArgs : Connect(u, opt)
    \/ Subscribe
    \/ Close
    \/ \E t \in Transports : TransportOpen(t)
    \/ \E t \in Transports, data \in PayloadTexts : TransportMessage(t, data)
    \/ \E t \in Transports : TransportError(t)
    \/ \E t \in Transports : TransportClose(t)

SpecSend == Init /\ [][NextSend]_vars

\* ------------------------------------------- reconnection controller ---
\* reconnect(limits), lines 53-62, up to its first await
reconnect(limits) ==
    IF url = ""
    THEN /\ rc' = [RcIdle EXCEPT !.pc = "done", !.limits = limits]
         /\ UNCHANGED <<url, options, transports, ws>>
    ELSE /\ Len(transports) < MaxTransports
         /\ connect(url, Undefined)
         /\ rc' = [pc |-> "await", t |-> Len(transports) + 1, reconnectTime |-> 0,
                   limits |-> limits, attempts |-> 1]

\* the awaited connect promise is settled: the continuation runs as a microtask
RcReady == rc.pc = "await" /\ transports[rc.t].promise # "pending"

\* reconnect(limits) from an await to the next one, or to its end
ReconnectResume ==
    /\ RcReady
    /\ IF transports[rc.t].promise = "false" /\ rc.reconnectTime < rc.limits
       THEN /\ Len(transports) < MaxTransports
            /\ connect(url, Undefined)
            /\ rc' = [rc EXCEPT !.reconnectTime = @ + 1, !.t = Len(transports) + 1,
                                !.attempts = @ + 1]
       ELSE /\ rc' = [rc EXCEPT !.pc = "done"]
            /\ UNCHANGED <<url, options, transports, ws>>
    /\ lastOp' = Op("other", "none", "none")
    /\ UNCHANGED <<status, publisher, listeners, cacheMessages, subscribers, nCb,
                   delivered, nMsgs, accepted, terminated>>

\* the error handler of initPublish, reached through Subscriber o.  No handler of
\* a WebSocket is bound to observer.error (line 118 binds complete), so no step
\* of Next runs it; NextReconnect runs it to exercise reconnect as a unit.
ObserverError(o) ==
    /\ ~subscribers[o]
    /\ rc.pc # "await"
    /\ subscribers' = [subscribers EXCEPT ![o] = TRUE]
    /\ IF options.autoReconnect
       THEN reconnect(options.reconnectLimits)
       ELSE UNCHANGED <<url, options, transports, ws, rc>>
    /\ lastOp' = Op("other", "none", "none")
    /\ UNCHANGED <<status, publisher, listeners, cacheMessages, nCb, delivered, nMsgs,
                   accepted, terminated>>

\* the transport lifecycle with the reconnection controller running; payloads
\* and subscribers play no part in reconnect and are left out of this relation
NextReconnect ==
    \/ ReconnectResume
    \/ ~RcReady /\ \E o \in DOMAIN subscribers : ObserverError(o)
    \/ ~RcReady /\ \E u \in Urls, opt \in OptionArgs : Connect(u, opt)
    \/ ~RcReady /\ Close
    \/ ~RcReady /\ \E t \in Transports : TransportOpen(t)
    \/ ~RcReady /\ \E t \in Transports : TransportError(t)
    \/ ~RcReady /\ \E t \in Transports : TransportClose(t)

SpecReconnect == Init /\ [][NextReconnect]_vars

\* =============================================================== claims ===
Range(seq) == {seq[i] : i \in DOMAIN seq}
Reverse(seq) == [i \in 1..Len(seq) |-> seq[Len(seq) + 1 - i]]
Handed(c, m) == [cb |-> c, id |-> m.id, tag |-> m.tag, value |-> m.value]
Received(c) == SelectSeq(delivered, LAMBDA d : d.cb = c)

\* C1: the first subscribe, made on a live publisher, hands its callback every
\* buffered payload, each decoded or passed through on its own, in reverse
\* arrival order, and raises nothing; so the callback has them all before any
\* payload that arrives later.
C1_FirstSubscribeDrainsAll ==
    [][(nCb = 0 /\ nCb' = 1 /\ ~publisher.isStopped) =>
         /\ lastOp'.raised = "none"
         /\ cacheMessages' = <<>>
         /\ delivered' = [i \in 1..Len(cacheMessages) |->
                            Handed(1, DecodeOrPass(Reverse(cacheMessages)[i]))]]_vars

\* C2: a subscribe that finds an undecodable payload in the buffer raises no
\* error, hands the raw string to its callback, and records the subscription.
C2_UndecodablePassedThrough ==
    [][(nCb' = nCb + 1 /\ ~publisher.isStopped
          /\ \E i \in DOMAIN cacheMessages : cacheMessages[i].data = RawText) =>
         /\ lastOp'.raised = "none"
         /\ \A i \in DOMAIN cacheMessages :
               cacheMessages[i].data = RawText =>
                   Handed(nCb', Raw(cacheMessages[i])) \in Range(delivered')
         /\ listeners' = Append(listeners, [pub |-> publisher.id, cb |-> nCb'])]_vars

\* C3: the buffer is empty right after every subscribe, returned or failed, and
\* whenever subscriptions is non-empty.
C3_BufferEmptyWhileSubscribed ==
    /\ lastOp.op = "subscribe" => cacheMessages = <<>>
    /\ listeners # <<>> => cacheMessages = <<>>

\* C4: every payload the relay took in is still buffered or has been handed to
\* some callback, and no callback was handed the same payload twice.
C4_ExactlyOnce ==
    /\ \A id \in accepted :
          \/ \E i \in DOMAIN cacheMessages : cacheMessages[i].id = id
          \/ \E i \in DOMAIN delivered : delivered[i].id = id
    /\ \A i, j \in DOMAIN delivered :
          (delivered[i].cb = delivered[j].cb /\ delivered[i].id = delivered[j].id) => i = j

\* C5: an error event of an opened transport with autoReconnect set starts a new
\* connect attempt in the same step (reconnect runs to its first await inside
\* the handler); the close event that follows a deliberate close starts none.
C5_ErrorStartsReconnect ==
    [][/\ (options.autoReconnect
            /\ \E t \in Transports : /\ transports[t].opened
                                     /\ ~transports[t].closeDue
                                     /\ transports'[t].closeDue)
          => Len(transports') > Len(transports)
       /\ (\E t \in Transports : /\ transports[t].readyState = "CLOSING"
                                 /\ transports'[t].readyState = "CLOSED")
          => Len(transports') = Len(transports)]_vars

\* C6: a reconnection sequence never makes more than reconnectLimits connect
\* attempts, and one whose attempts all resolve false makes exactly that many.
C6_AttemptsWithinLimit ==
    /\ rc.pc # "idle" => rc.attempts <= rc.limits
    /\ (rc.pc = "done" /\ rc.attempts > 0 /\ transports[rc.t].promise = "false")
          => rc.attempts = rc.limits

\* C7: once the transport a connect call created has reported open or error,
\* that call's promise is settled: true iff the transport opened.
C7_ConnectSettles ==
    \A t \in Transports :
        (transports[t].opened \/ transports[t].readyState = "CLOSED") =>
            /\ transports[t].promise # "pending"
            /\ transports[t].promise = "true" <=> transports[t].opened

ActiveOpen ==
    /\ ws # 0
    /\ transports[ws].opened
    /\ transports[ws].readyState \in {"OPEN", "CLOSING"}

\* C9: in every state, status is true exactly when the active transport is open.
C9_StatusTracksActiveTransport == status <=> ActiveOpen

\* the step is the first close or error event of an opened transport t
Terminates(t) ==
    /\ transports[t].opened
    /\ transports[t].readyState \in {"OPEN", "CLOSING"}
    /\ transports'[t].readyState = "CLOSED"

C11_TerminationTearsDown ==
    [][\A t \in Transports :
          (Terminates(t) /\ t = ws)
              => /\ status' = FALSE
                 /\ publisher'.isStopped
                 /\ publisher'.observers = <<>>
                 /\ listeners' = <<>>]_vars

\* the active transport opened and has terminated, and the teardown released
\* at least one registered callback
C11_Witness ==
    /\ ws # 0
    /\ transports[ws].opened
    /\ transports[ws].readyState = "CLOSED"
    /\ terminated # {}
    /\ ~status
    /\ publisher.isStopped
    /\ listeners = <<>>

\* C12: a transport is CLOSING only after close() was called on it as this.ws;
\* with no connect called since, the step in which it terminates (its close
\* event, or the error event of one that never opened) leaves status false
\* and listeners empty, also when close() was called while its connect was
\* still pending.
C12_CloseTearsDown ==
    [][\A t \in Transports :
          (/\ t = ws
           /\ transports[t].readyState = "CLOSING"
           /\ transports'[t].readyState = "CLOSED")
              => (status' = FALSE /\ listeners' = <<>>)]_vars

\* C13: a subscribe called before any transport has opened (no publisher), or
\* after the relay was torn down and before the next open (publisher completed),
\* raises an error for want of a connection (the only such error the code can
\* raise is the TypeError of the null publisher) in both cases.
C13_SubscribeNotConnectedRaises ==
    [][(/\ lastOp'.op = "subscribe"
        /\ (publisher = NoPublisher \/ publisher.isStopped))
           => lastOp'.raised = "TypeError"]_vars

\* the active transport is open and ready
ActiveReady == ws # 0 /\ transports[ws].readyState = "OPEN"

C15_SendNotReadyIsNoOp ==
    [][(lastOp'.op = "send" /\ ~ActiveReady) =>
          /\ lastOp'.handed = "none"
          /\ lastOp'.raised = "none"
          /\ UNCHANGED <<status, publisher, listeners, cacheMessages>>]_vars

\* a send was dropped in silence after the active transport terminated, with
\* payloads waiting in the buffer
C15_Witness ==
    /\ ws # 0
    /\ transports[ws].readyState = "CLOSED"
    /\ cacheMessages # <<>>
    /\ lastOp.op = "send"
    /\ lastOp.arg = StringMessage
    /\ lastOp.handed = "none"
    /\ lastOp.raised = "none"

\* C16: in every state, publisher is non-null exactly when status is true.
C16_PublisherIffStatus == (publisher # NoPublisher) <=> status

\* handler h, when run, writes fields of the manager
HandlerLive(h) ==
    \/ h.kind = "connectOnOpen"
    \/ h.kind \in {"next", "complete"} /\ ~subscribers[h.o]

\* an event can still be dispatched on t whose handler writes fields of the manager
CanChangeManager(t) ==
    LET s == transports[t] IN
    \/ s.readyState = "CONNECTING" /\ HandlerLive(s.onopen)
    \/ s.readyState = "OPEN" /\ HandlerLive(s.onmessage)
    \/ s.readyState \in {"CONNECTING", "OPEN", "CLOSING"} /\ HandlerLive(s.onerror)
    \/ (s.readyState \in {"CONNECTING", "OPEN", "CLOSING"} \/ s.closeDue)
          /\ HandlerLive(s.onclose)

\* C17: in every state, no transport other than the one most recently created
\* by connect is open or can still run a handler that changes the manager.
C17_OnlyNewestLive ==
    \A t \in Transports :
        t # ws => (transports[t].readyState # "OPEN" /\ ~CanChangeManager(t))

\* C18: a payload the next handler takes in while listeners is non-empty is not
\* buffered: it is handed, decoded or raw, to the callback of every entry of
\* listeners, in the order of the entries, after everything delivered before.
C18_DeliveredToEverySubscription ==
    [][(accepted' # accepted /\ listeners # <<>>) =>
          /\ cacheMessages' = cacheMessages
          /\ \E d \in PayloadTexts :
                delivered' = delivered \o
                    [i \in 1..Len(listeners) |->
                        Handed(listeners[i].cb,
                               DecodeOrPass([id |-> nMsgs + 1, data |-> d]))]]_vars

\* payload p was buffered through a Subscriber whose connection has terminated
BufferedBeforeTermination(p) == subscribers[p.via]

\* C19: no close or error event and no open changes cacheMessages, and a
\* subscribe made with no subscription in place on a live publisher hands its
\* callback every payload that was buffered during a connection since
\* terminated.
C19_BufferSurvivesTermination ==
    [][/\ (\E t \in Transports : transports'[t].readyState # transports[t].readyState)
            => cacheMessages' = cacheMessages
       /\ lastOp'.op = "lateClose" => cacheMessages' = cacheMessages
       /\ (/\ lastOp'.op = "subscribe"
           /\ nCb' = nCb + 1
           /\ status
           /\ ~publisher.isStopped
           /\ listeners = <<>>)
             => \A k \in DOMAIN cacheMessages :
                   BufferedBeforeTermination(cacheMessages[k])
                      => \E i \in DOMAIN delivered' :
                            /\ delivered'[i].cb = nCb'
                            /\ delivered'[i].id = cacheMessages[k].id]_vars

====
